---- MODULE Spec2Model ----
(***************************************************************************)
(* Model of print_contribution_calendar (src/src/main.rs, lines 269-397):  *)
(* the 52-week window, the commit scan that buckets commits by local date, *)
(* the intensity classifier, the month header, the grid and the summary.   *)
(*                                                                         *)
(* A NaiveDate is modelled as its day number since 1970-01-01, so that     *)
(* Duration::days arithmetic is integer arithmetic; weekday and month are  *)
(* computed from the day number by the proleptic Gregorian calendar.       *)
(***************************************************************************)
EXTENDS Integers, Sequences, FiniteSets

VARIABLES
    now,              \* the instant read by Local::now(), seconds since the epoch
    tz,               \* the host's local UTC offset in seconds
    history,          \* the commits the revwalk walks (the Commit Source)
    pc,               \* position inside print_contribution_calendar
    today,            \* line 270
    start_date,       \* line 276
    walk,             \* "none", "revwalk_err", "push_head_err", "ok"
    pending,          \* indices of history the revwalk has still to yield
    reordered,        \* the revwalk yielded some item out of history order
    commits_by_date,  \* line 279
    max_commits,      \* line 303
    header,           \* the month label line, one text per week column
    grid,             \* the seven printed rows
    legend,           \* the legend blocks, in printed order
    summary           \* <<total_commits, active_days>> once printed

vars == <<now, tz, history, pc, today, start_date, walk, pending, reordered,
          commits_by_date, max_commits, header, grid, legend, summary>>

----------------------------------------------------------------------------
(* Bounds of the model *)

MaxCommits == 3      \* commits in the history
NumNowDays == 7      \* consecutive days the program is run on
MaxCount == 12       \* largest bucket value the classifier is tried on

(* Program constants *)

Weeks == 52
SecsPerDay == 24 * 60 * 60
FirstNowDay == 20142      \* 2025-02-23, a Sunday

----------------------------------------------------------------------------
(* chrono: dates *)

\* DateTime::with_timezone(&Local).date_naive(): the calendar day of an
\* instant shifted by the local offset (floor division, also before 1970).
date_naive(secs, off) == (secs + off) \div SecsPerDay

\* Weekday::num_days_from_sunday(); 1970-01-01 was a Thursday.
num_days_from_sunday(d) == (d + 4) % 7

\* Datelike::month() of the day number d (Gregorian calendar, 1..12).
month(d) ==
    LET z   == d + 719468
        era == z \div 146097
        doe == z - era * 146097
        yoe == (doe - doe \div 1460 + doe \div 36524 - doe \div 146096) \div 365
        doy == doe - (365 * yoe + yoe \div 4 - yoe \div 100)
        mp  == (5 * doy + 2) \div 153
    IN  IF mp < 10 THEN mp + 3 ELSE mp - 9

----------------------------------------------------------------------------
(* The window, lines 270-276 *)

WindowStartUnaligned(t) == t - Weeks * 7

WindowStart(t) ==
    LET start0 == t - Weeks * 7
        days_since_sunday == num_days_from_sunday(start0)
    IN  start0 - days_since_sunday

----------------------------------------------------------------------------
(* The commit scan, lines 279-300 *)

EmptyMap == [d \in {} |-> 0]

\* An item of the revwalk: an Err of the walk itself ("walkerr"), an oid that
\* find_commit cannot load ("nocommit"), a commit whose time.seconds() is
\* outside the range DateTime::from_timestamp accepts ("badtime": that range
\* is wider than the integers of the model, so such a time is carried as a
\* tag), or a commit with a representable time ("commit").
Item(k, s) == [kind |-> k, secs |-> s]

\* lines 291-292: Some(date) is <<date>>, None is <<>>.
CommitDate(item, off) ==
    IF item.kind = "commit" THEN <<date_naive(item.secs, off)>> ELSE <<>>

\* line 296: *commits_by_date.entry(date).or_insert(0) += 1
Increment(m, d) ==
    [x \in DOMAIN m \cup {d} |->
        IF x = d THEN (IF d \in DOMAIN m THEN m[d] ELSE 0) + 1 ELSE m[x]]

\* One iteration of the loop of lines 288-300 on one revwalk item.
BucketNoUpperBound(m, item, sd, td, off) ==
    IF item.kind \in {"walkerr", "nocommit"}
    THEN m
    ELSE LET date == CommitDate(item, off)
         IN  IF date = <<>> THEN m
             ELSE IF date[1] >= sd THEN Increment(m, date[1]) ELSE m

BucketStep(m, item, sd, td, off) ==
    IF item.kind = "walkerr"
    THEN m                                    \* filter_map(Result::ok)
    ELSE IF item.kind = "nocommit"
    THEN m                                    \* if let Ok(commit)
    ELSE LET date == CommitDate(item, off)
         IN  IF date = <<>>
             THEN m                           \* if let Some(date)
             ELSE IF date[1] >= sd /\ date[1] <= td
                  THEN Increment(m, date[1])
                  ELSE m

\* The indices the revwalk yields: everything reachable from HEAD when
\* push_head succeeded, nothing when it failed (its error is dropped by
\* .ok() on line 285). No take(n) on line 288.
WalkYieldCapped(h, pushed) ==
    IF pushed THEN {i \in 1..Len(h) : i <= 2} ELSE {}

WalkYield(h, pushed) ==
    IF pushed THEN 1..Len(h) ELSE {}

SetMax(S) == CHOOSE x \in S : \A y \in S : y <= x
SetMin(S) == CHOOSE x \in S : \A y \in S : x <= y

Values(m) == {m[d] : d \in DOMAIN m}

\* line 303: values().max().copied().unwrap_or(1).max(1)
MaxCommitsOf(m) ==
    LET mx == IF DOMAIN m = {} THEN 1 ELSE SetMax(Values(m))
    IN  IF mx >= 1 THEN mx ELSE 1

----------------------------------------------------------------------------
(* The intensity classifier, lines 365-379. A block is its truecolor.      *)

Grey       == <<40, 40, 40>>
Yellow     == <<250, 204, 21>>
Orange     == <<251, 146, 60>>
LightGreen == <<134, 239, 172>>
Green      == <<34, 197, 94>>

\* (count as f64 / max as f64 * 4.0).ceil(): the quotient of two small
\* integers is within half an ulp of a multiple of 1/4 only when it is that
\* multiple, and scaling by 4 is exact, so the result is the integer ceiling.
CeilDiv(a, b) == (a + b - 1) \div b

BlockFloor(count, max) ==
    IF count = 0
    THEN Grey
    ELSE LET intensity == (count * 4) \div max
         IN  CASE intensity = 1 -> Yellow
               [] intensity = 2 -> Orange
               [] intensity = 3 -> LightGreen
               [] OTHER -> Green

get_contribution_block(count, max) ==
    IF count = 0
    THEN Grey
    ELSE LET intensity == CeilDiv(count * 4, max)
         IN  CASE intensity = 1 -> Yellow
               [] intensity = 2 -> Orange
               [] intensity = 3 -> LightGreen
               [] OTHER -> Green

\* lines 349-353: the legend shows the five levels in ascending order.
Legend == <<Grey, Yellow, Orange, LightGreen, Green>>

----------------------------------------------------------------------------
(* The month header, lines 305-319 *)

month_abbr(m) ==
    CASE m = 1 -> "Jan" [] m = 2 -> "Feb" [] m = 3 -> "Mar" [] m = 4 -> "Apr"
      [] m = 5 -> "May" [] m = 6 -> "Jun" [] m = 7 -> "Jul" [] m = 8 -> "Aug"
      [] m = 9 -> "Sep" [] m = 10 -> "Oct" [] m = 11 -> "Nov" [] m = 12 -> "Dec"
      [] OTHER -> "   "

HeaderIndent == "     "      \* line 306
HeaderBlank == "  "          \* line 316

\* The loop of lines 308-318 from column `week` on; current_month is 0 for None.
RECURSIVE LabelsNoUpdate(_, _, _)
LabelsNoUpdate(sd, week, current_month) ==
    IF week >= Weeks
    THEN <<>>
    ELSE LET week_start == sd + week * 7
             m == month(week_start)
         IN  IF current_month # m
             THEN <<month_abbr(m)>> \o LabelsNoUpdate(sd, week + 1, current_month)
             ELSE <<HeaderBlank>> \o LabelsNoUpdate(sd, week + 1, current_month)

RECURSIVE MonthLabels(_, _, _)
MonthLabels(sd, week, current_month) ==
    IF week >= Weeks
    THEN <<>>
    ELSE LET week_start == sd + week * 7
             m == month(week_start)
         IN  IF current_month # m
             THEN <<month_abbr(m)>> \o MonthLabels(sd, week + 1, m)
             ELSE <<HeaderBlank>> \o MonthLabels(sd, week + 1, current_month)

----------------------------------------------------------------------------
(* The grid, lines 321-344 *)

days == <<"Sun", "Mon", "Tue", "Wed", "Thu", "Fri", "Sat">>

\* lines 325-329
RowLabel(day_idx) ==
    IF day_idx % 2 = 1 THEN " " \o days[day_idx + 1] \o " " ELSE "     "

\* A printed cell: the date it was computed for (line 332) and what was
\* printed for it, <<>> for the two blanks of line 335, else the block of
\* line 341 (which is followed by one blank).
Cell(sd, td, m, mx, week, day_idx) ==
    LET date == sd + (week * 7 + day_idx)
    IN  IF date > td
        THEN [date |-> date, block |-> <<>>]
        ELSE LET count == IF date \in DOMAIN m THEN m[date] ELSE 0
             IN  [date |-> date, block |-> get_contribution_block(count, mx)]

GridRows(sd, td, m, mx) ==
    [day_idx \in 0..6 |->
        [label |-> RowLabel(day_idx),
         cells |-> [week \in 0..(Weeks - 1) |-> Cell(sd, td, m, mx, week, day_idx)]]]

----------------------------------------------------------------------------
(* The summary, lines 356-362 *)

RECURSIVE SumOver(_, _)
SumOver(m, keys) ==
    IF keys = {} THEN 0
    ELSE LET d == CHOOSE x \in keys : TRUE
         IN  m[d] + SumOver(m, keys \ {d})

StatsKeysOnly(m) == <<Cardinality(DOMAIN m), Cardinality(DOMAIN m)>>

Stats(m) ==
    LET total_commits == SumOver(m, DOMAIN m)
        active_days == Cardinality(DOMAIN m)
    IN  <<total_commits, active_days>>

----------------------------------------------------------------------------
(* Inputs *)

\* The clocks the program is run under: a UTC offset and a UTC time of day.
\* Under the second the local day is the day after the UTC day, under the
\* third the day before.
Clocks == << <<0, 43200>>, <<19800, 84600>>, <<-28800, 3600>> >>

NowDays == FirstNowDay..(FirstNowDay + NumNowDays - 1)

\* The runs: one on each of the days, the clocks taken in turn.
Runs == {<<day, Clocks[(day % Len(Clocks)) + 1]>> : day \in NowDays}

\* The commits a history is made of, placed around the edges of the window
\* of a run at local day td with offset off.
CommitInputs(td, off) ==
    LET sd == WindowStart(td)
        at(d, sod) == d * SecsPerDay + sod - off
    IN  << Item("commit", at(td, SecsPerDay - 1)),        \* last second of today
           Item("commit", at(td + 1, 0)),                 \* first second of tomorrow
           Item("commit", at(sd, 0)),                     \* first second of the window
           Item("commit", at(sd - 1, SecsPerDay - 1)),    \* last second before it
           Item("commit", at(sd + 200, 43200)),           \* a day inside the grid
           Item("badtime", 0),
           Item("nocommit", 0),
           Item("walkerr", 0) >>

\* A history is a multiset of items; it is written down in one fixed order
\* and the revwalk yields it in any order.
Histories(td, off) ==
    LET inputs == CommitInputs(td, off)
        idxs == UNION {[1..n -> 1..Len(inputs)] : n \in 0..MaxCommits}
        sorted(f) == \A i \in 1..(Len(f) - 1) : f[i] <= f[i + 1]
    IN  {[i \in 1..Len(f) |-> inputs[f[i]]] : f \in {g \in idxs : sorted(g)}}

----------------------------------------------------------------------------
(* The program *)

Init ==
    /\ \E r \in Runs :
          /\ tz = r[2][1]
          /\ now = r[1] * SecsPerDay + r[2][2]
    /\ history = <<>>
    /\ pc = "start"
    /\ today = 0
    /\ start_date = 0
    /\ walk = "none"
    /\ pending = {}
    /\ reordered = FALSE
    /\ commits_by_date = EmptyMap
    /\ max_commits = 0
    /\ header = <<>>
    /\ grid = <<>>
    /\ legend = <<>>
    /\ summary = <<>>

\* lines 270-279
ComputeWindow ==
    /\ pc = "start"
    /\ today' = date_naive(now, tz)
    /\ start_date' = WindowStart(date_naive(now, tz))
    /\ commits_by_date' = EmptyMap
    /\ pc' = "revwalk"
    /\ UNCHANGED <<now, tz, history, walk, pending, reordered, max_commits,
                   header, grid, legend, summary>>

\* lines 281-284: repo.revwalk() fails and the function returns.
RevwalkErr ==
    /\ pc = "revwalk"
    /\ walk' = "revwalk_err"
    /\ pc' = "done"
    /\ UNCHANGED <<now, tz, history, today, start_date, pending, reordered,
                   commits_by_date, max_commits, header, grid, legend, summary>>

\* lines 281-286: the revwalk opens. Either push_head fails (there is no
\* HEAD to walk from, the error is dropped) and the walk is empty, or it
\* succeeds and the walk holds the history reachable from HEAD.
RevwalkOk ==
    /\ pc = "revwalk"
    /\ \/ /\ walk' = "push_head_err"
          /\ history' = <<>>
          /\ pending' = WalkYield(<<>>, FALSE)
       \/ \E h \in Histories(today, tz) :
             /\ walk' = "ok"
             /\ history' = h
             /\ pending' = WalkYield(h, TRUE)
    /\ pc' = "scan"
    /\ UNCHANGED <<now, tz, today, start_date, reordered,
                   commits_by_date, max_commits, header, grid, legend, summary>>

\* lines 288-300: one iteration of the loop, on whichever item comes next.
ScanCommit ==
    /\ pc = "scan"
    /\ \E i \in pending :
          /\ commits_by_date' = BucketStep(commits_by_date, history[i],
                                           start_date, today, tz)
          /\ pending' = pending \ {i}
          /\ reordered' = (reordered \/ i # SetMin(pending))
    /\ UNCHANGED <<now, tz, history, pc, today, start_date, walk, max_commits,
                   header, grid, legend, summary>>

\* line 303: the revwalk is exhausted.
EndScan ==
    /\ pc = "scan"
    /\ pending = {}
    /\ max_commits' = MaxCommitsOf(commits_by_date)
    /\ pc' = "header"
    /\ UNCHANGED <<now, tz, history, today, start_date, walk, pending, reordered,
                   commits_by_date, header, grid, legend, summary>>

\* lines 305-319
PrintMonthLabels ==
    /\ pc = "header"
    /\ header' = MonthLabels(start_date, 0, 0)
    /\ pc' = "grid"
    /\ UNCHANGED <<now, tz, history, today, start_date, walk, pending, reordered,
                   commits_by_date, max_commits, grid, legend, summary>>

\* lines 321-344
PrintGrid ==
    /\ pc = "grid"
    /\ grid' = GridRows(start_date, today, commits_by_date, max_commits)
    /\ pc' = "stats"
    /\ UNCHANGED <<now, tz, history, today, start_date, walk, pending, reordered,
                   commits_by_date, max_commits, header, legend, summary>>

\* lines 346-362
PrintLegendAndStats ==
    /\ pc = "stats"
    /\ legend' = Legend
    /\ summary' = Stats(commits_by_date)
    /\ pc' = "done"
    /\ UNCHANGED <<now, tz, history, today, start_date, walk, pending, reordered,
                   commits_by_date, max_commits, header, grid>>

Next ==
    \/ ComputeWindow
    \/ RevwalkErr
    \/ RevwalkOk
    \/ ScanCommit
    \/ EndScan
    \/ PrintMonthLabels
    \/ PrintGrid
    \/ PrintLegendAndStats

Spec == Init /\ [][Next]_vars

----------------------------------------------------------------------------
(* What the properties below speak about *)

AfterScan == pc \in {"header", "grid", "stats", "done"} /\ walk # "revwalk_err"

\* The indices of history the loop has been run on so far.
Scanned == (IF walk = "ok" THEN 1..Len(history) ELSE {}) \ pending

LocalDateIs(i, d) == history[i].kind = "commit" /\ date_naive(history[i].secs, tz) = d

InWindow(i) ==
    /\ history[i].kind = "commit"
    /\ date_naive(history[i].secs, tz) >= start_date
    /\ date_naive(history[i].secs, tz) <= today

\* The intensity level a block stands for: its place in the legend.
Level(block) == CHOOSE l \in 0..4 : Legend[l + 1] = block

GridCells == {<<week, day_idx>> : week \in 0..(Weeks - 1), day_idx \in 0..6}

CellAt(c) == grid[c[2]].cells[c[1]]

Labelled(week) == header[week + 1] # HeaderBlank

\* ceil(a / b) as the least integer n with n * b >= a.
Ceiling(a, b) == CHOOSE n \in 0..a : n * b >= a /\ (n - 1) * b < a

ExpectedLevel(count, maxCount) ==
    IF count = 0 THEN 0
    ELSE LET l == Ceiling(count * 4, maxCount)
         IN  IF l < 1 THEN 1 ELSE IF l > 4 THEN 4 ELSE l

\* The sum of the values of m, by counting one token per commit.
Tokens(m) == UNION {{<<d, j>> : j \in 1..m[d]} : d \in DOMAIN m}

RECURSIVE ScanInOrder(_, _, _)
ScanInOrder(h, i, m) ==
    IF i > Len(h) THEN m
    ELSE ScanInOrder(h, i + 1, BucketStep(m, h[i], start_date, today, tz))

RECURSIVE WidthBefore(_, _)
WidthBefore(texts, n) ==
    IF n = 0 THEN 0 ELSE WidthBefore(texts, n - 1) + Len(texts[n])

\* Horizontal offset at which the header text of a week column starts.
HeaderOffset(week) == Len(HeaderIndent) + WidthBefore(header, week)

\* Width of a printed cell: two blanks, or a block and a blank.
CellWidth(cell) == IF cell.block = <<>> THEN Len("  ") ELSE 1 + Len(" ")

RECURSIVE CellsBefore(_, _)
CellsBefore(row, week) ==
    IF week = 0 THEN 0
    ELSE CellsBefore(row, week - 1) + CellWidth(row.cells[week - 1])

GridOffset(day_idx, week) == Len(grid[day_idx].label) + CellsBefore(grid[day_idx], week)

----------------------------------------------------------------------------
(* C1: when the history is one commit dated today, the grid shows exactly  *)
(* one cell of non-zero intensity, that cell is at level 4, and the        *)
(* summary reports 1 commit across 1 day.                                  *)
C1_SingleCommitToday ==
    (/\ pc = "done"
     /\ walk = "ok"
     /\ Len(history) = 1
     /\ CommitDate(history[1], tz) = <<today>>)
    => LET lit == {c \in GridCells : CellAt(c).block \notin {<<>>, Grey}}
       IN  /\ Cardinality(lit) = 1
           /\ \A c \in lit : Level(CellAt(c).block) = 4
           /\ summary = <<1, 1>>

(* C2: the cell at (week, dayOfWeek) shows start_date + week*7 + dayOfWeek *)
(* and the last column is the week that contains today, so today is the    *)
(* date of one of the grid cells.                                          *)
C2_LastColumnHoldsToday ==
    grid # <<>> =>
        /\ \A c \in GridCells : CellAt(c).date = start_date + c[1] * 7 + c[2]
        /\ \E day_idx \in 0..6 : CellAt(<<Weeks - 1, day_idx>>).date = today
        /\ \E c \in GridCells : CellAt(c).date = today

(* C3: when the revwalk cannot be opened or push_head fails, the function  *)
(* still prints a complete empty calendar: header, seven rows whose        *)
(* in-window cells are at level 0, legend, and a summary of 0 and 0.       *)
C3_EmptyCalendarOnWalkFailure ==
    (pc = "done" /\ walk \in {"revwalk_err", "push_head_err"}) =>
        /\ Len(header) = Weeks
        /\ grid # <<>>
        /\ \A c \in GridCells :
              CellAt(c).date <= today => CellAt(c).block = Grey
        /\ legend = Legend
        /\ summary = <<0, 0>>

(* C4: start_date is a Sunday, start_date <= today, and today - start_date *)
(* is 52*7 days plus the number of days from Sunday to today's weekday.    *)
C4_WindowAlignment ==
    pc # "start" =>
        /\ num_days_from_sunday(start_date) = 0
        /\ start_date <= today
        /\ num_days_from_sunday(today) \in 0..6
        /\ today - start_date = Weeks * 7 + num_days_from_sunday(today)

C4_Witness ==
    /\ pc # "start"
    /\ num_days_from_sunday(today) = 6
    /\ today - start_date = 370

(* C5: during and after the scan every key of commits_by_date lies in      *)
(* [start_date, today], each value is the number of scanned commits whose  *)
(* local date is the key, the values sum to the number of scanned commits  *)
(* dated in the window, and the scan runs over every item the revwalk      *)
(* yields whatever was skipped.                                            *)
C5_BucketsCountWindowCommits ==
    (pc # "start" /\ walk # "revwalk_err") =>
        /\ \A d \in DOMAIN commits_by_date : d >= start_date /\ d <= today
        /\ \A d \in DOMAIN commits_by_date :
              commits_by_date[d] = Cardinality({i \in Scanned : LocalDateIs(i, d)})
        /\ Cardinality(Tokens(commits_by_date))
              = Cardinality({i \in Scanned : InWindow(i)})
        /\ (AfterScan /\ walk = "ok") => Scanned = 1..Len(history)

C5_Witness ==
    /\ AfterScan
    /\ walk = "ok"
    /\ \E i, j, k \in Scanned :
          /\ history[i].kind = "badtime"
          /\ history[j].kind = "commit" /\ date_naive(history[j].secs, tz) > today
          /\ InWindow(k)
    /\ DOMAIN commits_by_date # {}

(* C6: get_contribution_block gives level 0 for count 0 and otherwise      *)
(* ceil(count*4/maxCount) clamped to 1..4, so a count equal to the maximum *)
(* is at level 4 and 1 of 2 is at level 2; the maximum passed in is the    *)
(* largest bucket value, floored at 1.                                     *)
C6_IntensityLevels ==
    /\ \A maxCount \in 1..MaxCount : \A count \in 0..maxCount :
          Level(get_contribution_block(count, maxCount)) = ExpectedLevel(count, maxCount)
    /\ \A count \in 1..MaxCount : Level(get_contribution_block(count, count)) = 4
    /\ Level(get_contribution_block(2, 2)) = 4
    /\ Level(get_contribution_block(1, 2)) = 2
    /\ AfterScan =>
          /\ max_commits >= 1
          /\ \A d \in DOMAIN commits_by_date : commits_by_date[d] <= max_commits
          /\ max_commits > 1 => \E d \in DOMAIN commits_by_date : commits_by_date[d] = max_commits
    /\ grid # <<>> =>
          \A c \in GridCells :
              LET count == IF CellAt(c).date \in DOMAIN commits_by_date
                           THEN commits_by_date[CellAt(c).date] ELSE 0
              IN  CellAt(c).block # <<>> =>
                      Level(CellAt(c).block) = ExpectedLevel(count, max_commits)

C6_Witness ==
    /\ grid # <<>>
    /\ max_commits = 2
    /\ \E a, b \in GridCells :
          /\ CellAt(a).block = Green
          /\ commits_by_date[CellAt(a).date] = 2
          /\ CellAt(b).block = Orange
          /\ commits_by_date[CellAt(b).date] = 1

(* C7: a week column carries a month label exactly when it is column 0 or  *)
(* the month of its first day differs from that of the column before, so   *)
(* two adjacent columns of the same month never both carry a label.        *)
C7_LabelOnMonthChange ==
    header # <<>> =>
        /\ Len(header) = Weeks
        /\ \A week \in 0..(Weeks - 1) :
              LET m == month(start_date + week * 7)
                  changed == week = 0 \/ m # month(start_date + (week - 1) * 7)
              IN  /\ Labelled(week) <=> changed
                  /\ Labelled(week) => header[week + 1] = month_abbr(m)
        /\ \A week \in 1..(Weeks - 1) :
              month(start_date + week * 7) = month(start_date + (week - 1) * 7)
                  => ~(Labelled(week) /\ Labelled(week - 1))

C7_Witness ==
    /\ header # <<>>
    /\ Cardinality({week \in 0..(Weeks - 1) : Labelled(week)}) >= 12
    /\ \E week \in 1..(Weeks - 1) :
          /\ ~Labelled(week)
          /\ month(start_date + week * 7) = month(start_date + (week - 1) * 7)

(* C8: the blank printed for an unlabelled week column is as wide as a     *)
(* month label, and the header text of every week column starts at the     *)
(* horizontal offset of that column in the grid rows.                      *)
C8_HeaderAlignedWithGrid ==
    (header # <<>> /\ grid # <<>>) =>
        /\ \A v, w \in 0..(Weeks - 1) : Len(header[v + 1]) = Len(header[w + 1])
        /\ \A week \in 0..(Weeks - 1) : \A day_idx \in 0..6 :
              HeaderOffset(week) = GridOffset(day_idx, week)

(* C9: whatever the order in which the revwalk yields the history, the     *)
(* scan ends with the map that scanning the history in its written order   *)
(* gives, hence the same max_commits and summary, and every item of the    *)
(* history has been scanned.                                               *)
C9_ScanOrderIndependent ==
    (AfterScan /\ walk = "ok") =>
        LET inOrder == ScanInOrder(history, 1, EmptyMap)
        IN  /\ commits_by_date = inOrder
            /\ max_commits = MaxCommitsOf(inOrder)
            /\ summary # <<>> => summary = Stats(inOrder)
            /\ pending = {}
            /\ Cardinality(Scanned) = Len(history)

C9_Witness ==
    /\ pc = "done"
    /\ walk = "ok"
    /\ reordered
    /\ Len(history) = MaxCommits
    /\ \A i \in 1..Len(history) : InWindow(i)
    /\ Cardinality(DOMAIN commits_by_date) >= 2

(* C10: the summary reports the sum of all bucket values and the number of *)
(* dates with a non-zero bucket; no bucket is zero; with no commit in the  *)
(* window the summary is 0 and 0 and every in-window cell is at level 0.   *)
C10_SummaryTotals ==
    /\ \A d \in DOMAIN commits_by_date : commits_by_date[d] >= 1
    /\ summary # <<>> =>
          /\ summary[1] = Cardinality(Tokens(commits_by_date))
          /\ summary[2] = Cardinality({d \in start_date..today :
                                d \in DOMAIN commits_by_date /\ commits_by_date[d] # 0})
          /\ DOMAIN commits_by_date = {} =>
                /\ summary = <<0, 0>>
                /\ \A c \in GridCells :
                      CellAt(c).date \in start_date..today => CellAt(c).block = Grey

C10_Witness ==
    /\ summary # <<>>
    /\ summary[1] = 3
    /\ summary[2] = 2
    /\ \E c \in GridCells : CellAt(c).block \notin {<<>>, Grey}

====
